---- MODULE Spec2Model ----
(***************************************************************************)
(* Conversation orchestrator of the standup bot: initStandup (begin) and   *)
(* the two click handlers, as they interleave at their await points.       *)
(*                                                                         *)
(* JavaScript runs one task at a time and switches tasks only at an await, *)
(* so every action below is one synchronous segment of a function: from    *)
(* its entry or the resumption of an await to the next await or return.    *)
(* The chat platform (MessagingGateway) answers a pending call in a step   *)
(* of its own.                                                             *)
(***************************************************************************)
EXTENDS Naturals, Sequences, FiniteSets

VARIABLES
    machine,    \* BOT.botStateMachine: the state of the run state machine
    users,      \* BOT.conversationState.users: member -> entry (or absent)
    msgs,       \* the chat platform: every message posted, by ts
    initPc,     \* initStandup: the await it is suspended at ("idle": not running)
    idx,        \* initStandup: position of the for-loop in BOT.members
    ret,        \* initStandup: the gateway call it awaits and its result
    begins,     \* number of initStandup invocations so far
    initDone,   \* number of INIT_DONE events sent to the run state machine
    h,          \* the click handler in progress (or the last one, when free)
    events,     \* number of invocations, interaction events and interruptions
    nwSent,     \* NOT_WORKING events sent to the run state machine since
                \* initStandup was last invoked, per user
    held,       \* history: the live init reference each member's entry held
                \* when initStandup was last invoked (0: none)
    failed      \* history: the members for whom openConversation or postMessage
                \* failed in the current invocation of initStandup

vars == <<machine, users, msgs, initPc, idx, ret, begins, initDone, h, events,
          nwSent, held, failed>>

(* ------------------------------ bounds --------------------------------- *)

\* Invocations of initStandup, interaction events and interruptions, together.
MaxEvents == 4

(* ------------------------------ the run -------------------------------- *)

\* BOT.members, in the order the for-loop of initStandup visits them.
Members == <<"u1", "u2">>

MemberSet == {Members[i] : i \in 1..Len(Members)}

\* A chat user who is not a member of the run, holding a prompt of an
\* earlier standup in their direct conversation with the bot.
Outsider == "ux"

Users == MemberSet \cup {Outsider}

(* ------------------------- conversation state -------------------------- *)

\* users[member] === undefined
Absent == [present |-> FALSE, INIT |-> <<>>, answers |-> "empty"]

\* createConversationStateMember(): a fresh entry, no message recorded and
\* no answer given.
createConversationStateMember ==
    [present |-> TRUE, INIT |-> <<>>, answers |-> "empty"]

\* const prevConversationState = BOT.conversationState: a second name for
\* the same object, not a copy of it.
prevConversationState == users

\* prevConversationState.users[member]?.botMessages.INIT?.[0]?.ts
prevInitTs(m) ==
    IF prevConversationState[m].present /\ Len(prevConversationState[m].INIT) > 0
    THEN prevConversationState[m].INIT[1]
    ELSE 0

\* The member state of section 4.2, read off an entry.
MemberState(e) ==
    IF ~e.present THEN "NotStarted"
    ELSE IF e.answers = "null" THEN "OptedOut"
    ELSE IF e.answers = "complete" THEN "Completed"
    ELSE IF e.answers = "answering" THEN "Answering"
    ELSE IF e.INIT = <<>> THEN "Initiating"
    ELSE "AwaitingChoice"

Terminal(e) == MemberState(e) \in {"OptedOut", "Completed"}

AllTerminal(us) == \A m \in MemberSet : Terminal(us[m])

(* ------------------------- run state machine --------------------------- *)

\* BOT.botStateMachine.send(event), with the conversation state at the time
\* of the call.
MachineSend(state, event, us) ==
    IF state = "Idle" /\ event = "INIT" THEN "Initializing"
    ELSE IF state = "Initializing" /\ event = "INIT_DONE" THEN "AwaitingResponses"
    ELSE IF state = "AwaitingResponses" /\ event \in {"NOT_WORKING", "ANSWERS_DONE"}
            /\ AllTerminal(us) THEN "Summarizing"
    ELSE state

(* ---------------------------- chat platform ---------------------------- *)

NoCall == [st |-> "none", ts |-> 0]
Pending(ts) == [st |-> "pending", ts |-> ts]

\* The result of BOT.connect() and of addUserMeta(...): neither reads or
\* changes a message, and initStandup ignores what they return.
Returned == [st |-> "ok", ts |-> 0]

\* The message an interactive prompt becomes once it is posted.
NewMessage(m) == [owner |-> m, live |-> TRUE, begin |-> begins, updates |-> 0, edits |-> 0]

\* updateMessage({ts, text: "---"}): the prompt is replaced by a placeholder.
Superseded(ms, ts) ==
    IF ts \in 1..Len(ms)
    THEN [ms EXCEPT ![ts].live = FALSE, ![ts].updates = @ + 1]
    ELSE ms

\* notWorking({channel, ts}): the clicked message is replaced by the neutral
\* acknowledgement.
Neutralized(ms, ts) ==
    IF ts \in 1..Len(ms)
    THEN [ms EXCEPT ![ts].live = FALSE, ![ts].edits = @ + 1]
    ELSE ms

(* ------------------------------- Init ---------------------------------- *)

FreeHandler == [pc |-> "free", kind |-> "none", user |-> Outsider, chan |-> FALSE,
                ts |-> 0, acked |-> FALSE, result |-> "none"]

Init ==
    /\ machine = "Idle"
    /\ users = [u \in Users |-> Absent]
    /\ msgs = <<[owner |-> Outsider, live |-> TRUE, begin |-> 0, updates |-> 0, edits |-> 0]>>
    /\ initPc = "idle"
    /\ idx = 0
    /\ ret = NoCall
    /\ begins = 0
    /\ initDone = 0
    /\ h = FreeHandler
    /\ events = 0
    /\ nwSent = [u \in Users |-> 0]
    /\ held = [m \in MemberSet |-> 0]
    /\ failed = {}

(* ----------------------------- initStandup ----------------------------- *)

\* LoopHead with INIT_DONE sent on entering the last iteration instead of
\* after the loop.
LoopHeadDoneEarly(i, us) ==
    IF i <= Len(Members)
    THEN /\ users' = [us EXCEPT ![Members[i]] = createConversationStateMember]
         /\ idx' = i
         /\ initPc' = "addUserMeta"
         /\ ret' = Returned
         /\ machine' = IF i = Len(Members)
                       THEN MachineSend(machine, "INIT_DONE", us) ELSE machine
         /\ initDone' = IF i = Len(Members) THEN initDone + 1 ELSE initDone
    ELSE /\ users' = us
         /\ idx' = 0
         /\ initPc' = "idle"
         /\ ret' = NoCall
         /\ UNCHANGED <<machine, initDone>>

\* The head of the for-loop at position i, with conversation state us: the
\* next member's entry is created and addUserMeta awaited, or the loop is
\* over and INIT_DONE is sent.
LoopHead(i, us) ==
    IF i <= Len(Members)
    THEN /\ users' = [us EXCEPT ![Members[i]] = createConversationStateMember]
         /\ idx' = i
         /\ initPc' = "addUserMeta"
         /\ ret' = Returned
         /\ UNCHANGED <<machine, initDone>>
    ELSE /\ users' = us
         /\ idx' = 0
         /\ initPc' = "idle"
         /\ ret' = NoCall
         /\ machine' = MachineSend(machine, "INIT_DONE", us)
         /\ initDone' = initDone + 1

\* initStandup is invoked: INIT is sent and BOT.connect() awaited.
Begin ==
    /\ initPc = "idle"
    /\ events < MaxEvents
    /\ events' = events + 1
    /\ begins' = begins + 1
    /\ machine' = MachineSend(machine, "INIT", users)
    /\ initPc' = "connect"
    /\ ret' = Returned
    /\ held' = [m \in MemberSet |->
                    IF users[m].present /\ Len(users[m].INIT) > 0
                       /\ msgs[users[m].INIT[1]].live
                    THEN users[m].INIT[1] ELSE 0]
    /\ failed' = {}
    /\ nwSent' = [u \in Users |-> 0]
    /\ UNCHANGED <<users, msgs, idx, initDone, h>>

\* BOT.members[idx], the member the loop is at.
member == Members[idx]

\* ContinueAfterFailure leaving the loop instead of going on with the next
\* member.
BreakAfterFailure == LoopHead(Len(Members) + 1, users)

\* if (!channel) continue; if (!initMessage?.ts) continue;
ContinueAfterFailure == LoopHead(idx + 1, users)

\* initStandup resumes from the await it is suspended at and runs to the
\* next await, or to its end.
InitResume ==
    /\ initPc # "idle"
    /\ ret.st \in {"ok", "fail"}
    /\ CASE initPc = "connect" -> LoopHead(1, users)
         [] initPc = "addUserMeta" ->
                /\ initPc' = "openConversation"
                /\ ret' = Pending(0)
                /\ UNCHANGED <<machine, users, idx, initDone>>
         [] initPc = "openConversation" ->
                IF ret.st = "fail" THEN ContinueAfterFailure
                ELSE IF prevInitTs(member) # 0
                THEN /\ initPc' = "updateMessage"
                     /\ ret' = Pending(prevInitTs(member))
                     /\ UNCHANGED <<machine, users, idx, initDone>>
                ELSE /\ initPc' = "postMessage"
                     /\ ret' = Pending(0)
                     /\ UNCHANGED <<machine, users, idx, initDone>>
         [] initPc = "updateMessage" ->
                /\ initPc' = "postMessage"
                /\ ret' = Pending(0)
                /\ UNCHANGED <<machine, users, idx, initDone>>
         [] initPc = "postMessage" ->
                IF ret.st = "fail" THEN ContinueAfterFailure
                ELSE LoopHead(idx + 1,
                        IF users[member].present
                        THEN [users EXCEPT ![member].INIT = Append(@, ret.ts)]
                        ELSE users)
    /\ failed' = IF initPc \in {"openConversation", "postMessage"} /\ ret.st = "fail"
                 THEN failed \cup {member} ELSE failed
    /\ UNCHANGED <<msgs, begins, h, events, nwSent, held>>

\* The chat platform answers the call initStandup awaits.
GatewayInit ==
    /\ initPc # "idle"
    /\ ret.st = "pending"
    /\ CASE initPc = "openConversation" ->
                /\ \E st \in {"ok", "fail"} : ret' = [st |-> st, ts |-> 0]
                /\ msgs' = msgs
         [] initPc = "updateMessage" ->
                /\ ret' = [st |-> "ok", ts |-> ret.ts]
                /\ msgs' = Superseded(msgs, ret.ts)
         [] initPc = "postMessage" ->
                \/ /\ msgs' = Append(msgs, NewMessage(member))
                   /\ ret' = [st |-> "ok", ts |-> Len(msgs) + 1]
                \/ /\ msgs' = msgs
                   /\ ret' = [st |-> "fail", ts |-> 0]
    /\ UNCHANGED <<machine, users, initPc, idx, begins, initDone, h, events,
                   nwSent, held, failed>>

\* The process is interrupted abruptly while initStandup runs: the tasks in
\* progress and the in-memory run state are lost, the conversation state and
\* the messages already posted remain. Interruptions are followed while
\* another invocation of initStandup is within the bound.
Interrupt ==
    /\ initPc # "idle"
    /\ events + 1 < MaxEvents
    /\ events' = events + 1
    /\ initPc' = "idle"
    /\ idx' = 0
    /\ ret' = NoCall
    /\ machine' = "Idle"
    /\ h' = IF h.pc = "free" THEN h ELSE FreeHandler
    /\ UNCHANGED <<users, msgs, begins, initDone, nwSent, held, failed>>

(* --------------------------- click handlers ---------------------------- *)

\* HandlerEntry with ack() called only once the event is found well-formed.
HandlerEntryAckAfterCheck(kind, user, chan, ts) ==
    [pc |-> "ack", kind |-> kind, user |-> user, chan |-> chan, ts |-> ts,
     acked |-> chan /\ ts # 0, result |-> "none"]

\* Entry of either click handler with the event body {user.id, channel.id,
\* message.ts}: ack() is called first and awaited.
HandlerEntry(kind, user, chan, ts) ==
    [pc |-> "ack", kind |-> kind, user |-> user, chan |-> chan, ts |-> ts,
     acked |-> TRUE, result |-> "none"]

\* The handler has returned (or thrown): the slot is free; which handler it
\* was, for which user, whether it acknowledged and how it ended stay
\* readable until the next event.
Finished(result) ==
    [pc |-> "free", kind |-> h.kind, user |-> h.user, chan |-> FALSE, ts |-> 0,
     acked |-> h.acked, result |-> result]

\* The messages a user can click: the ones in their conversation with the bot.
Clickable(user) == {t \in 1..Len(msgs) : msgs[t].owner = user}

\* An interaction event is delivered to its handler. ts = 0 is an event
\* without message.ts, chan = FALSE one without channel.id.
Click ==
    /\ h.pc = "free"
    /\ events < MaxEvents
    /\ \E kind \in {"notWorking", "startStandup"}, user \in Users, chan \in BOOLEAN :
         \E ts \in Clickable(user) \cup {0} :
            h' = HandlerEntry(kind, user, chan, ts)
    /\ events' = events + 1
    /\ UNCHANGED <<machine, users, msgs, initPc, idx, ret, begins, initDone, nwSent,
                   held, failed>>

\* HandlerAfterAck with the check of message.ts left out.
HandlerAfterAckChannelOnly ==
    /\ h.pc = "ack"
    /\ h' = IF ~h.chan THEN Finished("dropped")
            ELSE [h EXCEPT !.pc = h.kind]
    /\ UNCHANGED <<machine, users, msgs, initPc, idx, ret, begins, initDone,
                   events, nwSent, held, failed>>

\* HandlerAfterAck with the call of notWorking(...) left out: the handler
\* goes straight on to set the answers.
HandlerAfterAckNoEdit ==
    /\ h.pc = "ack"
    /\ h' = IF ~h.chan \/ h.ts = 0 THEN Finished("dropped")
            ELSE [h EXCEPT !.pc = IF h.kind = "notWorking"
                                  THEN "notWorkingDone" ELSE h.kind]
    /\ UNCHANGED <<machine, users, msgs, initPc, idx, ret, begins, initDone,
                   events, nwSent, held, failed>>

\* Either handler resumes after ack(): a malformed event is dropped, any
\* other goes on to notWorking(...) or startStandup(...).
HandlerAfterAck ==
    /\ h.pc = "ack"
    /\ h' = IF ~h.chan \/ h.ts = 0 THEN Finished("dropped")
            ELSE [h EXCEPT !.pc = h.kind]
    /\ UNCHANGED <<machine, users, msgs, initPc, idx, ret, begins, initDone,
                   events, nwSent, held, failed>>

\* GatewayNotWorking with the error of a failed call caught and ignored: the
\* handler goes on as after an edit.
GatewayNotWorkingSwallowed ==
    /\ h.pc = "notWorking"
    /\ \/ msgs' = Neutralized(msgs, h.ts)
       \/ msgs' = msgs
    /\ h' = [h EXCEPT !.pc = "notWorkingDone"]
    /\ UNCHANGED <<machine, users, initPc, idx, ret, begins, initDone, events, nwSent, held, failed>>

\* The chat platform answers notWorking(...): the clicked message is edited,
\* or the call fails and the handler ends with the error.
GatewayNotWorking ==
    /\ h.pc = "notWorking"
    /\ \/ /\ msgs' = Neutralized(msgs, h.ts)
          /\ h' = [h EXCEPT !.pc = "notWorkingDone"]
       \/ /\ msgs' = msgs
          /\ h' = Finished("raised")
    /\ UNCHANGED <<machine, users, initPc, idx, ret, begins, initDone, events, nwSent, held, failed>>

\* users[body.user.id]!.answers = null
SetNotWorking(us, user) == [us EXCEPT ![user].answers = "null"]

\* NotWorkingSent with the two statements in the other order: the event is
\* sent before the answers are set.
NotWorkingSentFirst(us, user) == MachineSend(machine, "NOT_WORKING", us)

\* ...answers = null; BOT.botStateMachine.send("NOT_WORKING"): the run state
\* machine receives the event with the answers already set.
NotWorkingSent(us, user) ==
    MachineSend(machine, "NOT_WORKING", SetNotWorking(us, user))

\* notWorkingClickHandler resumes after notWorking(...): the answers of
\* body.user.id are set to null and NOT_WORKING is sent. Without an entry
\* for body.user.id the assignment throws a TypeError.
HandlerAfterNotWorking ==
    /\ h.pc = "notWorkingDone"
    /\ IF users[h.user].present
       THEN /\ users' = SetNotWorking(users, h.user)
            /\ machine' = NotWorkingSent(users, h.user)
            /\ nwSent' = [nwSent EXCEPT ![h.user] = @ + 1]
            /\ h' = Finished("done")
       ELSE /\ h' = Finished("typeError")
            /\ UNCHANGED <<machine, users, nwSent>>
    /\ UNCHANGED <<msgs, initPc, idx, ret, begins, initDone, events, held,
                   failed>>

\* The live init reference of a user: the last one recorded, 0 without one.
LiveInitTs(us, user) ==
    IF us[user].present /\ Len(us[user].INIT) > 0
    THEN us[user].INIT[Len(us[user].INIT)]
    ELSE 0

\* startStandup(BOT, {channel, ts, member}): a member awaiting a choice who
\* clicked the live prompt starts answering; any other event changes nothing.
StartStandup ==
    /\ h.pc = "startStandup"
    /\ users' = IF MemberState(users[h.user]) = "AwaitingChoice"
                   /\ LiveInitTs(users, h.user) = h.ts
                THEN [users EXCEPT ![h.user].answers = "answering"]
                ELSE users
    /\ h' = Finished("done")
    /\ UNCHANGED <<machine, msgs, initPc, idx, ret, begins, initDone, events, nwSent, held, failed>>

\* A member who is answering has answered the last prompt.
AnswersDone ==
    \E m \in MemberSet :
        /\ users[m].answers = "answering"
        /\ users' = [users EXCEPT ![m].answers = "complete"]
        /\ machine' = MachineSend(machine, "ANSWERS_DONE", users')
        /\ UNCHANGED <<msgs, initPc, idx, ret, begins, initDone, h, events, nwSent, held, failed>>

(* ---------------------------- specification ---------------------------- *)

Next ==
    \/ Begin
    \/ InitResume
    \/ GatewayInit
    \/ Interrupt
    \/ Click
    \/ HandlerAfterAck
    \/ GatewayNotWorking
    \/ HandlerAfterNotWorking
    \/ StartStandup
    \/ AnswersDone

Spec == Init /\ [][Next]_vars

\* The orchestrator while the process stays up: no interruption. A task that
\* can run does run, and the chat platform answers every call.
NextUp ==
    \/ Begin
    \/ InitResume
    \/ GatewayInit
    \/ Click
    \/ HandlerAfterAck
    \/ GatewayNotWorking
    \/ HandlerAfterNotWorking
    \/ StartStandup
    \/ AnswersDone

LiveSpec ==
    /\ Init
    /\ [][NextUp]_vars
    /\ WF_vars(InitResume)
    /\ WF_vars(GatewayInit)

\* The chat platform answers a call of initStandup made for a member other
\* than m.
GatewayInitNotFor(m) == GatewayInit /\ (idx = 0 \/ member # m)

\* As LiveSpec, except that a call made for the first member may never be
\* answered.
HangSpec ==
    /\ Init
    /\ [][NextUp]_vars
    /\ WF_vars(InitResume)
    /\ WF_vars(GatewayInitNotFor(Members[1]))

(* ------------------------------- claims -------------------------------- *)

\* initStandup is not running and its last invocation ran to its end.
InitCompleted == initPc = "idle" /\ begins > 0 /\ initDone = begins

\* The prompts posted for m in the current invocation of initStandup.
PostsThisBegin(m) == {t \in 1..Len(msgs) : msgs[t].owner = m /\ msgs[t].begin = begins}

\* The prompts of m that are still interactive.
LivePrompts(m) == {t \in 1..Len(msgs) : msgs[t].owner = m /\ msgs[t].live}

\* C1: when initStandup is invoked while the entry of member m holds a live
\* init reference R, then by the time the new prompt of m is posted exactly
\* one updateMessage call has been made against R and R is no longer
\* interactive.
C1_RecoverySupersedes ==
    \A m \in MemberSet :
        held[m] # 0 /\ PostsThisBegin(m) # {} =>
            /\ msgs[held[m]].updates = 1
            /\ ~msgs[held[m]].live

\* C2: every member has at most one interactive init prompt at any time.
C2_AtMostOneLive == \A m \in MemberSet : Cardinality(LivePrompts(m)) <= 1

\* C3: every interaction event delivered to a click handler has been
\* acknowledged, from the first await of the handler on, so before any
\* gateway call or state change of the handler, and whatever its outcome.
C3_AlwaysAcked == h.kind # "none" => h.acked

\* A malformed "start standup" event was dropped, acknowledged.
C3_Witness ==
    h.pc = "free" /\ h.kind = "startStandup" /\ h.result = "dropped" /\ h.acked

\* C4: once the conversation of a member is terminal (OptedOut or
\* Completed), no step takes it out of that state or changes its answers.
C4_TerminalIsFinal ==
    [][\A m \in MemberSet :
          Terminal(users[m]) =>
              /\ MemberState(users'[m]) = MemberState(users[m])
              /\ users'[m].answers = users[m].answers]_vars

\* The "not working" handler is at work on a well-formed event of a member
\* whose entry holds a live init reference, and the ts of the event names
\* another prompt, one of an earlier invocation of initStandup.
StaleNotWorking ==
    /\ h.kind = "notWorking" /\ h.pc # "free"
    /\ h.chan /\ h.ts # 0
    /\ msgs[h.ts].begin < begins
    /\ LiveInitTs(users, h.user) # 0
    /\ h.ts # LiveInitTs(users, h.user)

\* C5: a step of the handler on a stale "not working" click changes no
\* conversation state, edits no message and sends nothing to the run state
\* machine.
C5_StaleClickNoOp ==
    [][StaleNotWorking /\ h'.kind = h.kind /\ h' # h =>
          /\ users' = users
          /\ msgs' = msgs
          /\ nwSent' = nwSent
          /\ machine' = machine]_vars

\* C6: the "not working" handler does not end in an error on an event of a
\* user who is not a member of the run.
C6_UnknownMemberNoOp ==
    h.pc = "free" /\ h.kind = "notWorking" /\ h.user \notin MemberSet =>
        h.result # "typeError"

\* C7: the run state machine goes from AwaitingResponses to Summarizing only
\* in a step after which every member is terminal, and it does so in the
\* step in which the last member becomes terminal.
C7_RunCompletion ==
    [][/\ machine = "AwaitingResponses" /\ machine' = "Summarizing" =>
              AllTerminal(users')
       /\ machine = "AwaitingResponses" /\ ~AllTerminal(users) /\ AllTerminal(users') =>
              machine' = "Summarizing"]_vars

\* The run is Summarizing with the first member opted out and the second
\* completed.
C7_Witness ==
    /\ machine = "Summarizing"
    /\ MemberState(users[Members[1]]) = "OptedOut"
    /\ MemberState(users[Members[2]]) = "Completed"

\* C8: when initStandup has run to its end, a member for whom
\* openConversation or postMessage failed is OptedOut.
C8_FailedMemberOptedOut ==
    \A m \in MemberSet :
        InitCompleted /\ m \in failed => MemberState(users[m]) = "OptedOut"

\* While the process stays up: no member gets more than one prompt in an
\* invocation of initStandup, initStandup is idle only with INIT_DONE sent,
\* and then every member whose calls succeeded has exactly one prompt of
\* this invocation, recorded as the only init reference.
C9_Safe ==
    /\ initPc = "idle" => initDone = begins
    /\ \A m \in MemberSet :
        /\ Cardinality(PostsThisBegin(m)) <= 1
        /\ InitCompleted /\ m \notin failed =>
              /\ Cardinality(PostsThisBegin(m)) = 1
              /\ users[m].INIT = <<CHOOSE t \in PostsThisBegin(m) : TRUE>>

\* C9: whatever calls fail, an invocation of initStandup sends INIT_DONE in
\* the end, and every member whose calls succeed has exactly one prompt
\* posted and exactly one init reference recorded in it.
C9_BeginCompletes ==
    /\ []C9_Safe
    /\ (initPc # "idle") ~> (initPc = "idle" /\ initDone = begins)

\* initStandup ran to its end with the calls of the first member failed and
\* the prompt of the second posted and recorded.
C9_Witness ==
    /\ InitCompleted
    /\ Members[1] \in failed
    /\ Len(users[Members[2]].INIT) = 1

\* C10: the second member gets a prompt (or one of the calls made for that
\* member fails) in every invocation of initStandup, even when a call made
\* for the first member is never answered.
C10_SiblingNotBlocked ==
    (initPc # "idle") ~>
        (PostsThisBegin(Members[2]) # {} \/ Members[2] \in failed)

\* A step of the click handler in progress (not its entry, not its loss in
\* an interruption).
HandlerStep == h.pc # "free" /\ h'.kind = h.kind /\ h' # h

\* C11: a "not working" click handled while initStandup is in progress is
\* not lost: the handler finds the entry of the member, and no later step of
\* that invocation of initStandup takes the member out of the opted-out
\* state the click put it in.
C11_Serialized ==
    [][\A m \in MemberSet :
          /\ initPc # "idle" /\ nwSent[m] > 0 /\ users[m].answers = "null" =>
                users'[m].answers = "null"
          /\ HandlerStep /\ h.user = m => h'.result # "typeError"]_vars

\* Every member has left its initiating step in the current invocation of
\* initStandup: a call made for it failed, or its prompt is posted and
\* recorded as its live init reference.
AllLeftInitiating(us, fl) ==
    \A m \in MemberSet : m \in fl \/ LiveInitTs(us, m) \in PostsThisBegin(m)

\* C12: while initStandup runs the run state machine has received INIT (it
\* has left Idle), and INIT_DONE is sent only in a step that ends
\* initStandup, with no call pending and every member past its initiating
\* step.
C12_InitThenInitDone ==
    /\ [](initPc # "idle" => machine # "Idle")
    /\ [][initDone' # initDone =>
             /\ initDone' = initDone + 1
             /\ ret.st # "pending"
             /\ initPc' = "idle"
             /\ AllLeftInitiating(users', failed')]_vars

\* initStandup ran to its end and the run awaits responses, the prompt of
\* the first member recorded and the calls of the second failed.
C12_Witness ==
    /\ InitCompleted
    /\ machine = "AwaitingResponses"
    /\ Len(users[Members[1]].INIT) = 1
    /\ Members[2] \in failed

\* C13: the run state machine receives at most one NOT_WORKING per user in
\* a run.
C13_OneNotWorkingPerMember == \A u \in Users : nwSent[u] <= 1

\* C14: the steps of the "not working" handler on a well-formed event of a
\* user with an entry come in this order and change nothing else: after the
\* acknowledgement the clicked message is edited and only it; then, with the
\* message edited, the answers of that user and of no other are set to null
\* and NOT_WORKING is sent once.
C14_NotWorkingSteps ==
    [][HandlerStep /\ h.kind = "notWorking" /\ h.chan /\ h.ts # 0
       /\ users[h.user].present =>
          /\ h.acked
          /\ h.pc = "ack" =>
                /\ h'.pc = "notWorking"
                /\ msgs' = msgs /\ users' = users /\ nwSent' = nwSent
                /\ machine' = machine
          /\ h.pc = "notWorking" /\ h'.pc # "free" =>
                /\ h'.pc = "notWorkingDone"
                /\ ~msgs'[h.ts].live
                /\ msgs'[h.ts].edits = msgs[h.ts].edits + 1
                /\ \A t \in 1..Len(msgs) : t # h.ts => msgs'[t] = msgs[t]
                /\ users' = users /\ nwSent' = nwSent /\ machine' = machine
          /\ h.pc = "notWorkingDone" =>
                /\ h'.result = "done"
                /\ ~msgs[h.ts].live /\ msgs[h.ts].edits > 0
                /\ msgs' = msgs
                /\ users'[h.user].answers = "null"
                /\ \A u \in Users : u # h.user => users'[u] = users[u]
                /\ nwSent' = [nwSent EXCEPT ![h.user] = @ + 1]]_vars

\* A member has opted out: the handler is done, the answers are null and one
\* NOT_WORKING was sent.
C14_Witness ==
    /\ h.pc = "free" /\ h.kind = "notWorking" /\ h.result = "done"
    /\ h.user \in MemberSet
    /\ users[h.user].answers = "null"
    /\ nwSent[h.user] = 1

C16_FailedEditNoOptOut ==
    [][HandlerStep /\ h.pc = "notWorking" /\ msgs' = msgs =>
          /\ h'.pc = "free" /\ h'.result = "raised"
          /\ users' = users /\ nwSent' = nwSent /\ machine' = machine]_vars

\* The handler ended with the error of the edit for a member whose prompt
\* is still interactive and whose answers are not null.
C16_Witness ==
    /\ h.pc = "free" /\ h.kind = "notWorking" /\ h.result = "raised"
    /\ h.user \in MemberSet
    /\ users[h.user].present /\ users[h.user].answers # "null"
    /\ LivePrompts(h.user) # {}

====
